---- MODULE Spec2Model ----
(***************************************************************************)
(* The request / retry / rate-limit engine of the PostGrid async client   *)
(* (client.py): the handle_errors retry wrapper, the fixed-window rate    *)
(* limiter _check_rate_limit and the transport step of _request.          *)
(*                                                                         *)
(* A logical request is one call of a public method (get/post/put/delete).*)
(* Each public method is wrapped by handle_errors and delegates to        *)
(* _request, which is wrapped by handle_errors too: a caller therefore    *)
(* runs two nested wrapper frames, frame 1 (the public method) and        *)
(* frame 2 (_request).  Steps are the code between two awaits.            *)
(***************************************************************************)
EXTENDS Integers, Sequences, FiniteSets, TLC

\* ---------------------------------------------------------------- bounds
MaxRetries == 3
MaxRateLimit == 2
MaxLatencyTicks == 1
MaxSharedRetries == 0
MaxConstructs == 3
MaxCloses == 2
MaxFairRetries == 1

\* ------------------------------------------------------ program constants
Window == 60
DefaultRetryAfter == 5
DefaultTimeout == 30
DefaultMaxRetries == 3
DefaultRateLimit == 50

Callers == {"a", "b"}

VARIABLES
    config,       \* get_config(): max_retries, rate_limit
    clock,        \* datetime.utcnow(), in seconds
    remaining,    \* PostGridClient._rate_limit_remaining
    reset_at,     \* PostGridClient._rate_limit_reset
    lock,         \* PostGridClient._rate_lock: its holder, or "free"
    req,          \* one logical request per caller: its two wrapper frames
    env,          \* what the server and the network may answer
    hist,         \* observations of the run (admissions, latency ticks)
    session,      \* PostGridClient._session: "none", "open" or "closed"
    singleton,    \* PostGridClient._instance (0: None) and its _initialized
    handle        \* the object each caller got from PostGridClient() (0: none yet)

life == <<session, singleton, handle>>
vars == <<config, clock, remaining, reset_at, lock, req, env, hist, life>>

\* ------------------------------------------------------------ exceptions
NoHeaders == [n \in {} |-> 0]

\* An exception value: its class, and for aiohttp.ClientResponseError the
\* status and headers raise_for_status() copies from the response.
ExcWith(type, status, headers, message, errors) ==
    [type |-> type, status |-> status, headers |-> headers, message |-> message,
     errors |-> errors]

\* self.errors = errors or []
Exc(type, status, headers, message) == ExcWith(type, status, headers, message, <<>>)

NoException == Exc("None", 0, NoHeaders, "")
Returned == Exc("returned", 0, NoHeaders, "")

\* The attributes an aiohttp.ClientResponseError instance has (the handler
\* reads e.status, e.headers, e.message, e.text and e.json).
ClientResponseErrorAttrs == {"request_info", "history", "status", "message", "headers"}

\* The classes of the two except clauses of the wrapper.
IsClientResponseError(e) == e.type = "ClientResponseError"
IsAnyException(e) == TRUE
IsClientErrorOrTimeout(e) == e.type \in {"ClientError", "TimeoutError"}

\* if e.status == 401
IsUnauthorizedOnly403(status) == status = 403
IsUnauthorized(status) == status = 401

\* 2 ** attempt
RECURSIVE Pow2(_)
Pow2(n) == IF n <= 0 THEN 1 ELSE 2 * Pow2(n - 1)

\* asyncio.sleep(2 ** attempt)
BackoffLinear(attempt) == attempt + 1
Backoff(attempt) == Pow2(attempt)

\* int(e.headers.get("Retry-After", 5))
RetryAfterIgnoresHeader(headers) == DefaultRetryAfter
RetryAfter(headers) ==
    IF "Retry-After" \in DOMAIN headers THEN headers["Retry-After"] ELSE DefaultRetryAfter

\* if attempt < config.max_retries - 1: the network branch sleeps
NetworkSleeps(attempt, max_retries) == attempt < max_retries - 1

\* What the except clauses of one wrapper frame do with exception e raised
\* in the try body of iteration `attempt`:
\*   "sleep"     await asyncio.sleep(secs), then continue
\*   "continue"  continue without sleeping
\*   "raise"     raise exc out of the frame
\*   "propagate" e matches no except clause and leaves the frame
Catch(e, attempt, max_retries) ==
    IF IsClientResponseError(e) THEN
        IF IsUnauthorized(e.status) THEN
            [do |-> "raise", secs |-> 0,
             exc |-> Exc("PostGridAuthenticationError", 401, NoHeaders, "Invalid API key")]
        ELSE IF e.status = 429 THEN
            [do |-> "sleep", secs |-> RetryAfter(e.headers), exc |-> e]
        ELSE IF e.status >= 500 THEN
            [do |-> "sleep", secs |-> Backoff(attempt), exc |-> e]
        ELSE IF e.status >= 400 THEN
            \* error_data = e.json() if e.text else {}
            IF "text" \in ClientResponseErrorAttrs THEN
                [do |-> "raise", secs |-> 0,
                 exc |-> Exc("PostGridValidationError", e.status, NoHeaders, "error.message")]
            ELSE
                [do |-> "raise", secs |-> 0,
                 exc |-> Exc("AttributeError", 0, NoHeaders, "no attribute 'text'")]
        ELSE
            [do |-> "continue", secs |-> 0, exc |-> e]
    ELSE IF IsClientErrorOrTimeout(e) THEN
        IF NetworkSleeps(attempt, max_retries) THEN
            [do |-> "sleep", secs |-> Backoff(attempt), exc |-> e]
        ELSE
            [do |-> "continue", secs |-> 0, exc |-> e]
    ELSE
        [do |-> "propagate", secs |-> 0, exc |-> e]

\* The statements after the for loop (lines 88-93).
ExhaustedReraisesLast(last_exception) == last_exception
Exhausted(last_exception) ==
    IF last_exception.type # "None" THEN
        IF last_exception.type = "PostGridAPIError" THEN last_exception
        ELSE Exc("PostGridAPIError", 0, NoHeaders, "Max retries exceeded")
    ELSE Exc("PostGridAPIError", 0, NoHeaders, "Request failed after multiple retries")

\* ------------------------------------------------------ the wrapper frames
\* range(config.max_retries + 1)
LoopRangeShort(max_retries) == 0 .. max_retries - 1
LoopRange(max_retries) == 0 .. max_retries

NewRequest ==
    [pc |-> "idle",            \* idle, acquire, limiter_sleep, sending, backoff, done
     lvl |-> 1,                \* the running frame: 1 = get/post/put/delete, 2 = _request
     attempt |-> <<0, 0>>,     \* the loop variable of each frame
     last |-> <<NoException, NoException>>,   \* last_exception of each frame
     wakeAt |-> 0,             \* when the pending asyncio.sleep is due
     sleepFor |-> 0,           \* the argument of the pending asyncio.sleep
     tries |-> 0,              \* transport calls issued
     fails |-> <<>>,           \* the failure of each failed transport call
     failedAt |-> 0,           \* when the last transport call failed
     waits |-> <<>>,           \* the retry sleep after each caught failure (0: none)
     suspended |-> 0,          \* times the rate limiter suspended this request
     result |-> NoException]   \* what the caller gets: Returned, or the exception

RECURSIVE Iterate(_, _), Raise(_, _), Propagate(_, _)

\* Iteration a of the for loop of the running frame, or the statements
\* after the loop when a is out of range.
Iterate(st, a) ==
    IF a \in LoopRange(config.max_retries)
    THEN [st EXCEPT !.attempt[st.lvl] = a, !.pc = "acquire"]
    ELSE Propagate(st, Exhausted(st.last[st.lvl]))

\* Exception e is raised in the try body of the running frame.
Raise(st, e) ==
    LET r == Catch(e, st.attempt[st.lvl], config.max_retries)
        st1 == [st EXCEPT !.last[st.lvl] = e]
    IN  CASE r.do = "sleep" ->
                [st1 EXCEPT !.pc = "backoff", !.wakeAt = clock + r.secs,
                            !.sleepFor = r.secs, !.waits = Append(@, r.secs)]
          [] r.do = "continue" ->
                Iterate([st1 EXCEPT !.waits = Append(@, 0)], st.attempt[st.lvl] + 1)
          [] r.do = "raise" -> Propagate(st1, r.exc)
          [] OTHER -> Propagate(st, e)

\* Exception e leaves the running frame: to the caller from frame 1, into
\* the try body of frame 1 (the await of _request) from frame 2.
Propagate(st, e) ==
    IF st.lvl = 1
    THEN [st EXCEPT !.pc = "done", !.result = e]
    ELSE Raise([st EXCEPT !.lvl = 1], e)

\* if self._session is None: await self.start()  (lines 188-189; start()
\* replaces a session that is None or closed, but is called for None only)
EnsureStarted(s) == IF s = "none" THEN "open" ELSE s

\* _check_rate_limit() has returned: return await func(self, ...).  In
\* frame 1 func is the public method, whose body awaits the wrapped
\* _request; in frame 2 func is _request, which issues the transport call.
Admitted(st) ==
    IF st.lvl = 1
    THEN Iterate([st EXCEPT !.lvl = 2, !.last[2] = NoException], 0)
    ELSE IF EnsureStarted(session) = "open"
         THEN [st EXCEPT !.pc = "sending", !.tries = @ + 1]
         ELSE Raise(st, Exc("RuntimeError", 0, NoHeaders, "Session is closed"))

\* self._session after the caller's admission in frame st.lvl
SessionAfterAdmission(st) == IF st.lvl = 2 THEN EnsureStarted(session) ELSE session

\* -------------------------------------------------------- the rate limiter
\* async with self._rate_lock: the lock can be taken
\* The lock when caller c, holding it, leaves the async with block of
\* _check_rate_limit (line 153, __aexit__).
ReleaseKept(l, c) == l
Release(l, c) == IF l = c THEN "free" ELSE l

LockIgnored(l) == TRUE
LockFree(l) == l = "free"

\* await asyncio.sleep(...) returns once its time has passed
SleepNeverOver(now, due) == FALSE
SleepOverAtOnce(now, due) == TRUE
SleepOver(now, due) == now >= due

\* if now >= self._rate_limit_reset: (lines 154-156)
WindowExpiredStrictly(now, rst) == now > rst
WindowExpired(now, rst) == now >= rst

\* if self._rate_limit_remaining <= 0: (line 159)
LimitReachedBelowZero(rem) == rem < 0
LimitReached(rem) == rem <= 0

\* (self._rate_limit_reset - now).total_seconds() (line 160)
SleepTimeWholeWindow(now, rst) == Window
SleepTime(now, rst) == rst - now

\* lines 164-167 after the sleep: the state a woken caller leaves
AfterSleepNoRefill(now) == [remaining |-> remaining - 1, reset_at |-> now + Window]
AfterSleep(now) == [remaining |-> config.rate_limit - 1, reset_at |-> now + Window]

\* ------------------------------------------------------------- transport
RateHeaders(now) ==
    IF env.headers
    THEN {NoHeaders, [n \in {"X-RateLimit-Remaining"} |-> 0]}
         \cup {[n \in {"X-RateLimit-Remaining", "X-RateLimit-Reset"} |->
                   IF n = "X-RateLimit-Remaining" THEN p[1] ELSE p[2]] :
               p \in {<<0, now>>, <<1, now + Window>>}}
    ELSE {NoHeaders}

Outcome(kind, status, headers) == [kind |-> kind, status |-> status, headers |-> headers]

\* What one transport call can end in: a response, or no response.
\* "schema" is a 2xx JSON response that does not match response_model.
AllKinds == {"2xx", "schema", "401", "4xx", "429", "5xx", "ClientError", "TimeoutError"}

AllOutcomes(now) ==
    {Outcome("2xx", 200, h) : h \in RateHeaders(now)}
    \cup {Outcome("schema", 200, NoHeaders), Outcome("401", 401, NoHeaders), Outcome("4xx", 404, NoHeaders),
          Outcome("429", 429, NoHeaders),
          Outcome("429", 429, [n \in {"Retry-After"} |-> 7]),
          Outcome("5xx", 500, NoHeaders),
          Outcome("ClientError", 0, NoHeaders), Outcome("TimeoutError", 0, NoHeaders)}

Outcomes(now) == {o \in AllOutcomes(now) : o.kind \in env.kinds}

\* Lines 197-202: the rate-limit state after the headers of a 2xx response.
HeaderRemaining(headers, rem) ==
    IF "X-RateLimit-Remaining" \in DOMAIN headers
    THEN headers["X-RateLimit-Remaining"] ELSE rem

HeaderReset(headers, rst) ==
    IF "X-RateLimit-Reset" \in DOMAIN headers THEN headers["X-RateLimit-Reset"] ELSE rst

\* ---------------------------------------------------------------- history
NoServerReport == [kind |-> "none", remaining |-> 0, reset_at |-> 0]

NoHistory ==
    [admits |-> <<>>, window_admits |-> 0, latency |-> 0,
     server |-> NoServerReport,    \* the rate-limit headers no admission decision followed yet
     constructs |-> <<>>,          \* what each call of PostGridClient() found
     closes |-> <<>>,              \* the session each call of close() found
     close_error |-> "none",       \* what the last close() raised
     config_error |-> "none"]      \* what the last get_config() raised

\* What the server last reported, until an admission decision follows.
ServerReport(headers, before) ==
    IF "X-RateLimit-Reset" \in DOMAIN headers
    THEN [kind |-> "both", remaining |-> headers["X-RateLimit-Remaining"],
          reset_at |-> headers["X-RateLimit-Reset"]]
    ELSE IF "X-RateLimit-Remaining" \in DOMAIN headers
    THEN [kind |-> "remaining", remaining |-> headers["X-RateLimit-Remaining"],
          reset_at |-> 0]
    ELSE before

\* The admissions of the last Window seconds, oldest first.
Recent(times, now) == SelectSeq(times, LAMBDA t : t >= now - Window)

\* One admission at `now`; `reset` tells whether the window was reset first.
Admission(h, now, reset) ==
    [h EXCEPT !.admits = Append(Recent(@, now), now),
              !.window_admits = IF reset THEN 1 ELSE @ + 1,
              !.server = NoServerReport]

\* ------------------------------------------------------------------- Init
\* The state after PostGridClient() is constructed (lines 115-120), for one
\* configuration and one environment.
Constructed ==
    /\ clock = 0
    /\ remaining = config.rate_limit      \* __init__, line 117
    /\ reset_at = clock                   \* __init__, line 118
    /\ lock = "free"                      \* __init__, line 119
    /\ req = [c \in Callers |-> NewRequest]
    /\ hist = [NoHistory EXCEPT !.constructs = <<"created">>]
    /\ session = "none"                   \* __init__, line 116
    /\ singleton = [instance |-> 1, initialized |-> TRUE]
    /\ handle = [c \in Callers |-> 1]

\* One logical request, every answer of the server and of the network.
InitRetry ==
    /\ config \in [max_retries : 0 .. MaxRetries, rate_limit : 1 .. MaxRateLimit]
    /\ env = [active |-> {"a"}, kinds |-> AllKinds, headers |-> FALSE]
    /\ Constructed

\* Concurrent logical requests sharing the rate limiter; the server answers
\* 2xx (with or without rate-limit headers) or 5xx.
InitLimiter ==
    /\ config \in [max_retries : 0 .. MaxSharedRetries, rate_limit : 1 .. MaxRateLimit]
    /\ env \in [active : {Callers}, kinds : {{"2xx", "5xx"}}, headers : BOOLEAN]
    /\ Constructed

Init == InitRetry \/ InitLimiter

\* ---------------------------------------------------------------- actions
\* A caller awaits client.get(...) (or post/put/delete): frame 1 starts.
Start(c) ==
    /\ c \in env.active
    /\ handle[c] # 0
    /\ req[c].pc = "idle"
    /\ req' = [req EXCEPT ![c] = Iterate(req[c], 0)]
    /\ UNCHANGED <<config, clock, remaining, reset_at, lock, env, hist, life>>

\* async with self._rate_lock: ... up to the sleep, or to the end of
\* _check_rate_limit and on to the next await of the caller.
Acquire(c) ==
    /\ req[c].pc = "acquire"
    /\ LockFree(lock)
    /\ LET now == clock
           expired == WindowExpired(now, reset_at)
           rem1 == IF expired THEN config.rate_limit ELSE remaining
           rst1 == IF expired THEN now + Window ELSE reset_at
       IN  IF LimitReached(rem1) /\ SleepTime(now, rst1) > 0
           THEN /\ remaining' = rem1
                /\ reset_at' = rst1
                /\ lock' = c
                /\ req' = [req EXCEPT ![c].pc = "limiter_sleep",
                                      ![c].wakeAt = now + SleepTime(now, rst1),
                                      ![c].sleepFor = SleepTime(now, rst1),
                                      ![c].suspended = @ + 1]
                /\ hist' = [hist EXCEPT !.window_admits = IF expired THEN 0 ELSE @,
                                         !.server = NoServerReport]
                /\ UNCHANGED session
           ELSE /\ remaining' = IF LimitReached(rem1) THEN AfterSleep(now).remaining
                                ELSE rem1 - 1
                /\ reset_at' = IF LimitReached(rem1) THEN AfterSleep(now).reset_at
                               ELSE rst1
                /\ lock' = Release(c, c)
                /\ req' = [req EXCEPT ![c] = Admitted(req[c])]
                /\ hist' = Admission(hist, now, expired \/ LimitReached(rem1))
                /\ session' = SessionAfterAdmission(req[c])
    /\ UNCHANGED <<config, clock, env, singleton, handle>>

\* The sleep inside _check_rate_limit is over: lines 164-167, the lock is
\* released and the caller goes on to its next await.
LimiterWake(c) ==
    /\ req[c].pc = "limiter_sleep"
    /\ SleepOver(clock, req[c].wakeAt)
    /\ remaining' = AfterSleep(clock).remaining
    /\ reset_at' = AfterSleep(clock).reset_at
    /\ lock' = Release(lock, c)
    /\ req' = [req EXCEPT ![c] = Admitted(req[c])]
    /\ hist' = Admission(hist, clock, TRUE)
    /\ session' = SessionAfterAdmission(req[c])
    /\ UNCHANGED <<config, clock, env, singleton, handle>>

\* The transport call of _request ends: raise_for_status(), the rate-limit
\* headers of a 2xx response, and the wrapper's except clauses otherwise.
Respond(c) ==
    /\ req[c].pc = "sending"
    /\ \E o \in Outcomes(clock) :
          IF o.status = 200
          THEN /\ remaining' = HeaderRemaining(o.headers, remaining)
               /\ reset_at' = HeaderReset(o.headers, reset_at)
               /\ hist' = [hist EXCEPT !.server = ServerReport(o.headers, @)]
               /\ req' = [req EXCEPT ![c] =
                     IF o.kind = "schema"
                     THEN Raise([req[c] EXCEPT !.fails = Append(@, o.kind),
                                               !.failedAt = clock],
                                ExcWith("PostGridValidationError", 400, NoHeaders,
                                        "Invalid response format from API",
                                        <<"e.errors()">>))
                     ELSE [req[c] EXCEPT !.pc = "done", !.result = Returned]]
          ELSE /\ req' = [req EXCEPT ![c] =
                     Raise([req[c] EXCEPT !.fails = Append(@, o.kind), !.failedAt = clock],
                           IF o.status = 0
                           THEN Exc(o.kind, 0, NoHeaders, "")
                           ELSE Exc("ClientResponseError", o.status, o.headers, ""))]
               /\ UNCHANGED <<remaining, reset_at, hist>>
    /\ UNCHANGED <<config, clock, lock, env, life>>

\* await asyncio.sleep(...) of an except clause is over: continue.
BackoffWake(c) ==
    /\ req[c].pc = "backoff"
    /\ SleepOver(clock, req[c].wakeAt)
    /\ req' = [req EXCEPT ![c] = Iterate(req[c], req[c].attempt[req[c].lvl] + 1)]
    /\ UNCHANGED <<config, clock, remaining, reset_at, lock, env, hist, life>>

\* Time passes: to the due time of a pending sleep, or (at most
\* MaxLatencyTicks times) while a caller has not issued its request yet or
\* waits for the network: to just before, or to, the end of a window.
Sleeping(c) == req[c].pc \in {"limiter_sleep", "backoff"}
Waiting(c) == c \in env.active /\ req[c].pc \in {"idle", "sending"}
LatencySteps == {Window - 1, Window}

Tick ==
    /\ \E d \in {req[c].wakeAt - clock : c \in {x \in Callers : Sleeping(x)}}
              \cup (IF hist.latency < MaxLatencyTicks /\ (\E c \in Callers : Waiting(c))
                    THEN LatencySteps ELSE {}) :
          /\ d > 0
          /\ clock' = clock + d
          /\ hist' = [hist EXCEPT
                         !.latency = IF d \in {req[c].wakeAt - clock :
                                                  c \in {x \in Callers : Sleeping(x)}}
                                     THEN @ ELSE @ + 1,
                         !.admits = Recent(@, clock + d)]
    /\ UNCHANGED <<config, remaining, reset_at, lock, req, env, life>>

Next ==
    \/ \E c \in Callers : Start(c)
    \/ \E c \in Callers : Acquire(c)
    \/ \E c \in Callers : LimiterWake(c)
    \/ \E c \in Callers : Respond(c)
    \/ \E c \in Callers : BackoffWake(c)
    \/ Tick

Spec == Init /\ [][Next]_vars
SpecRetry == InitRetry /\ [][Next]_vars
SpecLimiter == InitLimiter /\ [][Next]_vars

\* ------------------------------------------------- construction and close
\* __new__ (lines 103-108): the instance PostGridClient() returns, 0 being
\* cls._instance is None and fresh the object super().__new__ would make.
NewInstanceEveryTime(inst, fresh) == fresh
NewInstance(inst, fresh) == IF inst = 0 THEN fresh ELSE inst

\* close() (lines 143-146) on a session that is "none", "open" or "closed".
CloseSessionUnguarded(s) ==
    IF s = "none"
    THEN [session |-> s, error |-> "AttributeError"]
    ELSE [session |-> "closed", error |-> "none"]
CloseSession(s) ==
    [session |-> IF s # "none" /\ s # "closed" THEN "closed" ELSE s,
     error |-> "none"]

\* The class before the first PostGridClient(): no instance, no handle; the
\* instance attributes do not exist yet and hold placeholders here.
InitLife ==
    /\ config \in [max_retries : {0}, rate_limit : 1 .. MaxRateLimit]
    /\ env = [active |-> Callers, kinds |-> {"2xx"}, headers |-> FALSE]
    /\ clock = 0
    /\ remaining = 0
    /\ reset_at = 0
    /\ lock = "free"
    /\ req = [c \in Callers |-> NewRequest]
    /\ hist = NoHistory
    /\ session = "none"
    /\ singleton = [instance |-> 0, initialized |-> FALSE]
    /\ handle = [c \in Callers |-> 0]

\* Caller c evaluates PostGridClient(): __new__, then __init__ on what
\* __new__ returned (lines 103-120).
Construct(c) ==
    /\ req[c].pc = "idle"
    /\ Len(hist.constructs) < MaxConstructs
    /\ LET inst == NewInstance(singleton.instance, Len(hist.constructs) + 1)
           initialized == IF inst = singleton.instance
                          THEN singleton.initialized ELSE FALSE
       IN  /\ singleton' = [instance |-> inst, initialized |-> TRUE]
           /\ handle' = [handle EXCEPT ![c] = inst]
           /\ remaining' = IF initialized THEN remaining ELSE config.rate_limit
           /\ reset_at' = IF initialized THEN reset_at ELSE clock
           /\ lock' = IF initialized THEN lock ELSE "free"
           /\ session' = IF initialized THEN session ELSE "none"
           /\ hist' = [hist EXCEPT !.constructs = Append(@,
                          IF ~initialized THEN "created"
                          ELSE IF remaining < config.rate_limit THEN "reused, spent"
                          ELSE "reused")]
    /\ UNCHANGED <<config, clock, req, env>>

\* Caller c, between its requests, awaits client.close() (lines 143-146), as
\* get_client does when an API request is done (api/contact/create.py:35-39).
\* No transport call is in flight.
Close(c) ==
    /\ handle[c] # 0
    /\ req[c].pc \in {"idle", "done"}
    /\ \A d \in Callers : req[d].pc # "sending"
    /\ Len(hist.closes) < MaxCloses
    /\ session' = CloseSession(session).session
    /\ hist' = [hist EXCEPT !.closes = Append(@, session),
                            !.close_error = CloseSession(session).error]
    /\ UNCHANGED <<config, clock, remaining, reset_at, lock, req, env, singleton, handle>>

NextLife ==
    \/ \E c \in Callers : Construct(c)
    \/ \E c \in Callers : Start(c)
    \/ \E c \in Callers : Acquire(c)
    \/ \E c \in Callers : LimiterWake(c)
    \/ \E c \in Callers : Respond(c)
    \/ \E c \in Callers : Close(c)
    \/ Tick

SpecLife == InitLife /\ [][NextLife]_vars

\* ---------------------------------------------------------- configuration
\* The process environment: each POSTGRID_* variable is a text or not set.
NotSet == "<not set>"
DefaultBaseUrl == "https://api.postgrid.com/print-mail/v1/"

\* pydantic's int field: the texts that parse, with their values.
IntLiterals == ("-1" :> (0 - 1)) @@ ("0" :> 0) @@ ("1" :> 1)
\* pydantic's HttpUrl: the texts, of those the environment may hold, that
\* are absolute http(s) URLs.
HttpUrls == {DefaultBaseUrl, "http://localhost:8080/"}

EnvInt(text, default) ==
    IF text = NotSet THEN [ok |-> TRUE, value |-> default]
    ELSE IF text \in DOMAIN IntLiterals THEN [ok |-> TRUE, value |-> IntLiterals[text]]
    ELSE [ok |-> FALSE, value |-> 0]

NoConfig == [api_key |-> NotSet, base_url |-> NotSet, timeout |-> 0,
             max_retries |-> 0, rate_limit |-> 0]

\* PostGridConfig() (config.py:18-37): api_key is required and any text,
\* base_url an HttpUrl, the three numbers any int; a failure is pydantic's
\* ValidationError.
PostGridConfig(environ) ==
    LET timeout == EnvInt(environ.POSTGRID_TIMEOUT, DefaultTimeout)
        max_retries == EnvInt(environ.POSTGRID_MAX_RETRIES, DefaultMaxRetries)
        rate_limit == EnvInt(environ.POSTGRID_RATE_LIMIT, DefaultRateLimit)
        base_url == IF environ.POSTGRID_BASE_URL = NotSet THEN DefaultBaseUrl
                    ELSE environ.POSTGRID_BASE_URL
    IN  IF /\ environ.POSTGRID_API_KEY # NotSet
           /\ base_url \in HttpUrls
           /\ timeout.ok /\ max_retries.ok /\ rate_limit.ok
        THEN [error |-> "none",
              value |-> [api_key |-> environ.POSTGRID_API_KEY, base_url |-> base_url,
                         timeout |-> timeout.value, max_retries |-> max_retries.value,
                         rate_limit |-> rate_limit.value]]
        ELSE [error |-> "ValidationError", value |-> NoConfig]

\* get_config() (config.py:46-53); lru_cache keeps a value, not a failure.
GetConfig == PostGridConfig(env.environ)

\* A process whose environment is any of these, before PostGridClient() is
\* first evaluated; one caller, the server answers 2xx or 5xx.
Environs ==
    [POSTGRID_API_KEY : {NotSet, "", "key"},
     POSTGRID_BASE_URL : {NotSet, "api.postgrid.com"},
     POSTGRID_TIMEOUT : {NotSet, "0", "soon"},
     POSTGRID_MAX_RETRIES : {NotSet, "-1", "0", "1"},
     POSTGRID_RATE_LIMIT : {NotSet, "-1", "0", "1"}]

InitConfig ==
    /\ config = NoConfig
    /\ env \in [active : {{"a"}}, kinds : {{"2xx", "5xx"}}, headers : {FALSE},
                environ : Environs]
    /\ clock = 0
    /\ remaining = 0
    /\ reset_at = 0
    /\ lock = "free"
    /\ req = [c \in Callers |-> NewRequest]
    /\ hist = NoHistory
    /\ session = "none"
    /\ singleton = [instance |-> 0, initialized |-> FALSE]
    /\ handle = [c \in Callers |-> 0]

\* Caller c evaluates PostGridClient() while no client is initialized:
\* __new__, then __init__, whose first statement is get_config() (client.py:115).
Load(c) ==
    /\ c \in env.active
    /\ ~singleton.initialized
    /\ Len(hist.constructs) < MaxConstructs
    /\ LET loaded == GetConfig
           ok == loaded.error = "none"
       IN  /\ singleton' = [instance |-> NewInstance(singleton.instance, 1),
                            initialized |-> ok]
           /\ handle' = [handle EXCEPT ![c] = IF ok THEN singleton'.instance ELSE @]
           /\ config' = IF ok THEN loaded.value ELSE config
           /\ remaining' = IF ok THEN loaded.value.rate_limit ELSE remaining
           /\ reset_at' = IF ok THEN clock ELSE reset_at
           /\ hist' = [hist EXCEPT !.constructs = Append(@, IF ok THEN "created" ELSE "failed"),
                                   !.config_error = loaded.error]
    /\ UNCHANGED <<clock, lock, req, env, session>>

NextConfig ==
    \/ \E c \in Callers : Load(c)
    \/ \E c \in Callers : Start(c)
    \/ \E c \in Callers : Acquire(c)
    \/ \E c \in Callers : LimiterWake(c)
    \/ \E c \in Callers : Respond(c)
    \/ \E c \in Callers : BackoffWake(c)
    \/ Tick

SpecConfig == InitConfig /\ [][NextConfig]_vars

\* ---------------------------------------------------------------- fairness
\* The event loop runs every task that is ready and time advances: a due
\* sleep returns, a transport call ends (aiohttp's total timeout bounds
\* it), and asyncio.Lock wakes its waiters first come, first served.
Fairness ==
    /\ WF_vars(Tick)
    /\ \A c \in Callers :
          /\ WF_vars(Acquire(c))
          /\ WF_vars(LimiterWake(c))
          /\ WF_vars(Respond(c))
          /\ WF_vars(BackoffWake(c))

\* One logical request, every answer of the server and of the network,
\* under fair scheduling.
InitFairRetry ==
    /\ config \in [max_retries : 0 .. MaxFairRetries, rate_limit : 1 .. MaxRateLimit]
    /\ env = [active |-> {"a"}, kinds |-> AllKinds, headers |-> FALSE]
    /\ Constructed

FairRetry == InitFairRetry /\ [][Next]_vars /\ Fairness

\* The lock when caller c leaves the async with block of _check_rate_limit
\* by an exception raised at its await (line 153, __aexit__ with exc_info).
KeptOnException(l, c) == l
ReleaseOnException(l, c) == IF l = c THEN "free" ELSE l

\* Concurrent logical requests, each of which may be cancelled; the server
\* answers 2xx.
InitFairLimiter ==
    /\ config \in [max_retries : {0}, rate_limit : 1 .. MaxRateLimit]
    /\ env = [active |-> Callers, kinds |-> {"2xx"}, headers |-> FALSE]
    /\ Constructed

\* The task of caller c is cancelled: CancelledError is raised at the await
\* the task is suspended in; no except clause of the wrapper catches it
\* (lines 45, 78) and the lock, if c holds it, is released on the way out.
Cancel(c) ==
    /\ req[c].pc \in {"acquire", "limiter_sleep", "sending", "backoff"}
    /\ req' = [req EXCEPT ![c].pc = "done",
                          ![c].result = Exc("CancelledError", 0, NoHeaders, req[c].pc)]
    /\ lock' = ReleaseOnException(lock, c)
    /\ UNCHANGED <<config, clock, remaining, reset_at, env, hist, life>>

NextCancel ==
    \/ \E c \in Callers : Start(c)
    \/ \E c \in Callers : Acquire(c)
    \/ \E c \in Callers : LimiterWake(c)
    \/ \E c \in Callers : Respond(c)
    \/ \E c \in Callers : Cancel(c)
    \/ Tick

FairLimiter == InitFairLimiter /\ [][NextCancel]_vars /\ Fairness

\* ================================================================== claims
Done(c) == req[c].pc = "done"
Failed(c) == Done(c) /\ req[c].result # Returned
\* Every transport call of c so far has failed, each with a kind of K.
EveryAttempt(c, K) ==
    /\ req[c].tries = Len(req[c].fails)
    /\ req[c].tries >= 1
    /\ \A i \in 1 .. Len(req[c].fails) : req[c].fails[i] \in K
LastFail(c) == req[c].fails[Len(req[c].fails)]
\* The seconds a 429 with these headers asks the client to wait.
AskedWait(e) == IF "Retry-After" \in DOMAIN e.headers THEN e.headers["Retry-After"] ELSE 5

\* C1: when every transport attempt of a logical request answers 5xx, the
\* request ends after exactly max_retries + 1 attempts, and the retry sleep
\* between attempt i and attempt i+1 (0-based) is 2^i seconds; while the
\* request runs it never exceeds that budget and its sleeps follow 2^i.
C1_ServerBackoff ==
    \A c \in Callers :
        EveryAttempt(c, {"5xx"}) =>
            /\ req[c].tries <= config.max_retries + 1
            /\ \A i \in 1 .. Len(req[c].waits) :
                   i <= config.max_retries => req[c].waits[i] = 2 ^ (i - 1)
            /\ Done(c) =>
                   /\ req[c].tries = config.max_retries + 1
                   /\ Len(req[c].waits) >= config.max_retries

C1_Witness ==
    \E c \in Callers :
        /\ Done(c)
        /\ config.max_retries = 3
        /\ req[c].fails = <<"5xx", "5xx", "5xx", "5xx">>
        /\ req[c].tries = 4
        /\ SubSeq(req[c].waits, 1, 3) = <<1, 2, 4>>

\* The typed error of the taxonomy for a retryable failure.
TypedErrorOf(kind) ==
    CASE kind = "5xx" -> "PostGridServerError"
      [] kind = "429" -> "PostGridRateLimitError"
      [] OTHER -> "PostGridNetworkError"

\* C2: a request that exhausts its attempt budget on retryable failures
\* raises the typed error of its last failure: Server for a 5xx, RateLimit
\* for a 429, Network for a transport failure or timeout.
C2_LastErrorSurfaced ==
    \A c \in Callers :
        (Failed(c) /\ EveryAttempt(c, {"5xx", "429", "ClientError", "TimeoutError"}))
            => req[c].result.type = TypedErrorOf(LastFail(c))

\* C3: a 401 response ends the logical request at once with the
\* Authentication error: it is the last transport attempt, and no retry
\* sleep follows it.
C3_UnauthorizedFailsFast ==
    \A c \in Callers :
        \A i \in 1 .. Len(req[c].fails) :
            req[c].fails[i] = "401" =>
                /\ i = Len(req[c].fails)
                /\ req[c].tries = i
                /\ Len(req[c].waits) = i - 1
                /\ Done(c)
                /\ req[c].result.type = "PostGridAuthenticationError"

C3_Witness ==
    \E c \in Callers :
        /\ config.max_retries > 0
        /\ req[c].fails = <<"401">>
        /\ req[c].tries = 1
        /\ req[c].waits = <<>>
        /\ req[c].result.type = "PostGridAuthenticationError"

\* C4: a 4xx response other than 401 and 429 is not retried, and the caller
\* receives a typed Validation/Client error carrying the status code.
C4_ClientErrorTyped ==
    \A c \in Callers :
        (req[c].fails # <<>> /\ LastFail(c) = "4xx") =>
            /\ Done(c)
            /\ req[c].tries = Len(req[c].fails)
            /\ req[c].result.type \in {"PostGridValidationError", "PostGridAPIError"}
            /\ req[c].result.status = 404

\* C5: after a 429 on any attempt the client sleeps the seconds of the
\* Retry-After header (5 when it is absent), whatever the attempt index,
\* and does nothing more for that request before that time has passed.
C5_RetryAfterHonoured ==
    \A c \in Callers :
        (req[c].fails # <<>> /\ LastFail(c) = "429" /\ req[c].tries = Len(req[c].fails)) =>
            LET e == req[c].last[2] IN
            /\ e.status = 429
            /\ req[c].waits[Len(req[c].fails)] = AskedWait(e)
            /\ IF req[c].pc = "backoff"
               THEN /\ req[c].sleepFor = AskedWait(e)
                    /\ req[c].wakeAt = req[c].failedAt + AskedWait(e)
               ELSE clock >= req[c].failedAt + AskedWait(e)

C5_Witness ==
    \E c \in Callers :
        /\ req[c].pc = "backoff"
        /\ req[c].attempt[2] = 1
        /\ req[c].fails = <<"429", "429">>
        /\ req[c].waits = <<5, 7>>
        /\ req[c].sleepFor = 7

\* C6: when every transport attempt fails without a response (transport
\* failure or timeout), the request makes max_retries + 1 attempts and
\* sleeps 2^i seconds between attempt i and attempt i+1, for every i.
C6_NetworkBackoff ==
    \A c \in Callers :
        (Done(c) /\ EveryAttempt(c, {"ClientError", "TimeoutError"})) =>
            /\ req[c].tries = config.max_retries + 1
            /\ \A i \in 1 .. config.max_retries : req[c].waits[i] = 2 ^ (i - 1)

\* The logical requests issued so far.
Issued == {c \in Callers : req[c].pc # "idle"}

\* C7: from a fresh window, when at most rate_limit logical requests are
\* issued within the window, none of them failing and the server sending
\* no rate-limit headers, the rate limiter suspends no request.
C7_NoDelayWithinBudget ==
    (/\ ~env.headers
     /\ Cardinality(Issued) <= config.rate_limit
     /\ clock < Window
     /\ \A c \in Callers : req[c].fails = <<>>)
        => \A c \in Callers : req[c].suspended = 0

\* C8: a caller that enters the rate limiter while the budget is exhausted
\* (remaining <= 0 and now < window_reset_at) sleeps exactly
\* window_reset_at - now; a caller that wakes from that sleep is admitted,
\* leaving remaining = rate_limit - 1 and window_reset_at = wake time + 60s.
C8_SuspendUntilReset ==
    [][\A c \in Callers :
          /\ (/\ req[c].pc = "acquire"
              /\ req'[c] # req[c]
              /\ remaining <= 0
              /\ clock < reset_at)
                 => /\ req'[c].pc = "limiter_sleep"
                    /\ req'[c].sleepFor = reset_at - clock
                    /\ req'[c].wakeAt = reset_at
          /\ (req[c].pc = "limiter_sleep" /\ req'[c].pc # "limiter_sleep")
                 => /\ clock >= req[c].wakeAt
                    /\ remaining' = config.rate_limit - 1
                    /\ reset_at' = clock + Window
                    /\ lock' = "free"
                    /\ req'[c].pc \in {"acquire", "sending"}]_vars

C8_Witness ==
    \E c \in Callers :
        /\ req[c].suspended = 1
        /\ req[c].pc = "sending"
        /\ req[c].sleepFor < Window
        /\ clock = req[c].wakeAt
        /\ remaining = config.rate_limit - 1
        /\ reset_at = clock + Window

\* C9: without server rate-limit headers, at most rate_limit admissions
\* happen between two consecutive window resets, and at most 2 x rate_limit
\* admissions fall into any interval of 60 seconds.
C9_WindowBudget ==
    ~env.headers =>
        /\ hist.window_admits <= config.rate_limit
        /\ Len(hist.admits) <= 2 * config.rate_limit

C9_Witness ==
    /\ ~env.headers
    /\ config.rate_limit = 2
    /\ Len(hist.admits) = 4
    /\ hist.admits[1] = clock - Window
    /\ hist.window_admits = 2
    /\ \E c \in Callers : req[c].suspended > 0

\* C10: remaining is never negative, whatever the interleaving of
\* acquisitions, window resets and rate-limit headers of the server.
C10_RemainingNonNegative == remaining >= 0

C10_Witness ==
    /\ env.headers
    /\ remaining = 0
    /\ \E c, d \in Callers :
          /\ req[c].pc = "limiter_sleep"
          /\ req[d].result = Returned

\* C11: a caller sleeping inside the rate limiter does not hold the lock,
\* so another caller can enter the check-and-decrement during that sleep.
C11_SleepOutsideLock ==
    \A c \in Callers : req[c].pc = "limiter_sleep" => lock = "free"

\* C12: after a 2xx response with rate-limit headers the state holds the
\* reported values, and the next admission decision, whoever takes it, is
\* the limiter's decision on the reported remaining and window_reset_at.
C12_ServerStateDecides ==
    [][LET r == hist.server.remaining
           t == hist.server.reset_at
       IN  /\ (hist'.server # hist.server /\ hist'.server.kind # "none") =>
                  /\ remaining' = hist'.server.remaining
                  /\ hist'.server.kind = "both" => reset_at' = hist'.server.reset_at
           /\ (hist.server.kind = "both" /\ hist'.server.kind = "none") =>
                  IF clock >= t
                  THEN remaining' = config.rate_limit - 1 /\ reset_at' = clock + Window
                  ELSE IF r <= 0
                  THEN /\ remaining' = r
                       /\ reset_at' = t
                       /\ \E c \in Callers :
                             /\ req'[c].pc = "limiter_sleep"
                             /\ req'[c].wakeAt = t
                  ELSE remaining' = r - 1 /\ reset_at' = t]_vars

\* C13: every construction returns the one instance; a construction after
\* the first leaves remaining, window_reset_at, the lock and the session
\* as they were, so all handles share one budget.
C13_OneInstance ==
    [][Len(hist'.constructs) > Len(hist.constructs) =>
          /\ \A c \in Callers : handle'[c] \in {0, singleton'.instance}
          /\ singleton.instance # 0 =>
                /\ singleton'.instance = singleton.instance
                /\ UNCHANGED <<remaining, reset_at, lock, session>>]_vars
C13_Witness ==
    \E c \in Callers : \E d \in Callers \ {c} :
        /\ handle[c] # 0
        /\ handle[d] = handle[c]
        /\ \E i \in 1 .. Len(hist.constructs) : hist.constructs[i] = "reused, spent"
        /\ req[c].pc \in {"sending", "done"}
        /\ req[d].pc = "limiter_sleep"

\* C14: a request made after close() finds a session opened for it: its
\* transport call goes out on an open session and it does not fail on the
\* closed one.
C14_ReopensAfterClose ==
    \A c \in Callers :
        /\ req[c].pc = "sending" => session = "open"
        /\ Done(c) => req[c].result.type # "RuntimeError"

\* C15: close() raises nothing in any session state (never opened, open,
\* closed), closes an open session, leaves any other as it is, and never
\* touches the rate-limit state.
C15_CloseIdempotent ==
    [][Len(hist'.closes) > Len(hist.closes) =>
          /\ hist'.close_error = "none"
          /\ session' = IF session = "open" THEN "closed" ELSE session
          /\ UNCHANGED <<remaining, reset_at, lock>>]_vars
C15_Witness ==
    /\ hist.closes = <<"open", "closed">>
    /\ hist.close_error = "none"
    /\ session = "closed"
    /\ remaining < config.rate_limit

\* The failures the wrapper answers with another attempt.
Retryable == {"5xx", "429", "ClientError", "TimeoutError"}

\* C16: the attempts of one logical request are strictly sequential:
\* a transport call is issued only when every earlier call of the request
\* has failed and the wait computed for the last failure has elapsed.
C16_AttemptsSequential ==
    [][\A c \in Callers :
          req'[c].tries > req[c].tries =>
              /\ req'[c].tries = req[c].tries + 1
              /\ req[c].tries = Len(req[c].fails)
              /\ Len(req[c].waits) = Len(req[c].fails)
              /\ req[c].tries > 0 =>
                    clock >= req[c].failedAt + req[c].waits[Len(req[c].waits)]]_vars
C16_Witness ==
    \E c \in Callers :
        /\ req[c].pc = "sending"
        /\ req[c].tries = 3
        /\ req[c].waits[2] > 0

\* C17: a request whose k <= max_retries failures were all retryable ends
\* with the result of the 2xx that followed them, as a first-attempt 2xx
\* would, with no error and no transport call after the success.
C17_RetriesInvisible ==
    \A c \in Callers :
        (/\ Done(c)
         /\ Len(req[c].fails) <= config.max_retries
         /\ \A i \in 1 .. Len(req[c].fails) : req[c].fails[i] \in Retryable) =>
            /\ req[c].result = Returned
            /\ req[c].tries = Len(req[c].fails) + 1
C17_Witness ==
    \E c \in Callers :
        /\ Done(c)
        /\ req[c].result = Returned
        /\ config.max_retries >= 2
        /\ Len(req[c].fails) = config.max_retries
        /\ \A i \in 1 .. Len(req[c].fails) : req[c].fails[i] \in Retryable
        /\ req[c].fails[1] # req[c].fails[2]

\* C18: a 2xx JSON body that does not match the requested schema gives the
\* caller a Validation error carrying the structural errors; that response
\* is followed by no further transport call and no backoff.
C18_SchemaMismatchNotRetried ==
    \A c \in Callers :
        (req[c].fails # <<>> /\ LastFail(c) = "schema") =>
            /\ Done(c)
            /\ req[c].result.type = "PostGridValidationError"
            /\ req[c].result.errors # <<>>
            /\ req[c].tries = Len(req[c].fails)
            /\ Len(req[c].waits) = Len(req[c].fails) - 1
C18_Witness ==
    \E c \in Callers :
        /\ Done(c)
        /\ Len(req[c].fails) >= 2
        /\ LastFail(c) = "schema"
        /\ req[c].result.errors # <<>>

\* C19: classifying a 4xx response other than 401 and 429 never raises a
\* secondary error: the caller gets a typed PostGrid error, built from the
\* payload or, for a malformed body, the generic API error.
C19_NoSecondaryError ==
    \A c \in Callers :
        (Done(c) /\ req[c].fails # <<>> /\ LastFail(c) = "4xx") =>
            req[c].result.type \in
                {"PostGridValidationError", "PostGridAPIError", "PostGridError"}

\* C20: at most one caller at a time is inside the limiter's
\* check-and-decrement region: while one caller is in it, suspended, it
\* owns the lock and no other caller performs the check.
C20_OneInLimiter ==
    [][\A c \in Callers :
          req[c].pc = "limiter_sleep" =>
              /\ lock = c
              /\ \A d \in Callers \ {c} :
                    /\ req[d].pc # "limiter_sleep"
                    /\ req[d].pc = "acquire" => req'[d] = req[d]]_vars
C20_Witness ==
    \E c \in Callers : \E d \in Callers \ {c} :
        /\ req[c].pc = "limiter_sleep"
        /\ req[d].pc = "acquire"
        /\ clock < req[c].wakeAt

\* C21: a request holds the limiter's lock nowhere outside the limiter:
\* suspended in a retry wait or in its transport call it holds no exclusive
\* access to the rate-limit state, so another request can be admitted,
\* send and complete meanwhile.
C21_NoLockWhileWaiting ==
    \A c \in Callers :
        req[c].pc # "limiter_sleep" =>
            /\ lock # c
            /\ \A d \in Callers \ {c} :
                  (req[d].pc = "acquire" /\ lock = "free") => ENABLED Acquire(d)
C21_Witness ==
    \E c \in Callers : \E d \in Callers \ {c} :
        /\ req[c].pc = "backoff"
        /\ Done(d)
        /\ req[d].result = Returned
        /\ hist.admits # <<>>
        /\ hist.admits[Len(hist.admits)] > req[c].failedAt

\* C22: every configuration that loading returns has a non-empty api_key,
\* timeout > 0, max_retries >= 0 and rate_limit > 0; an environment that
\* violates one of them makes loading fail.
C22_ConfigConstraints ==
    singleton.initialized =>
        /\ config.api_key # ""
        /\ config.timeout > 0
        /\ config.max_retries >= 0
        /\ config.rate_limit > 0

\* C23: with a missing or empty api_key or a malformed base_url, loading
\* fails with the Configuration error of the client's taxonomy, at
\* construction, before any transport attempt.
C23_ConfigurationError ==
    (\/ env.environ.POSTGRID_API_KEY \in {NotSet, ""}
     \/ env.environ.POSTGRID_BASE_URL \notin HttpUrls \cup {NotSet}) =>
        /\ \A c \in Callers : req[c].tries = 0
        /\ ~singleton.initialized
        /\ hist.constructs # <<>> => hist.config_error = "PostGridConfigurationError"

\* C24: a logical request issued through get/post/put/delete makes at most
\* max_retries + 1 transport attempts, whatever the failures: the outer
\* retry loop never runs the inner one again.
C24_AttemptBudget ==
    \A c \in Callers :
        /\ req[c].tries <= config.max_retries + 1
        /\ req[c].attempt[1] = 0
C24_Witness ==
    \E c \in Callers :
        /\ Failed(c)
        /\ config.max_retries >= 1
        /\ req[c].tries = config.max_retries + 1
        /\ req[c].lvl = 1

\* C25: each transport attempt is preceded by exactly one acquisition of
\* the rate limiter: within one window and without server headers, a
\* request that has made a attempts has decreased remaining by exactly a.
C25_OneAcquisitionPerAttempt ==
    \A c \in Callers :
        (/\ req[c].pc \in {"sending", "backoff", "done"}
         /\ req[c].suspended = 0
         /\ reset_at = Window
         /\ clock < Window) =>
            remaining = config.rate_limit - req[c].tries

RECURSIVE SumOf(_), SumPow2(_)
SumOf(s) == IF s = <<>> THEN 0 ELSE Head(s) + SumOf(Tail(s))
\* The sum of 2^i for i in 0 .. n-1.
SumPow2(n) == IF n = 0 THEN 0 ELSE Pow2(n - 1) + SumPow2(n - 1)

\* C26: when the last permitted attempt fails with 5xx or 429 the client
\* raises without a further wait: a request that fails max_retries + 1
\* times with 5xx has spent the sum of 2^i, i in 0 .. max_retries - 1, in
\* backoff.
C26_NoWaitAfterLastAttempt ==
    \A c \in Callers :
        (/\ Done(c)
         /\ EveryAttempt(c, {"5xx", "429"})
         /\ Len(req[c].fails) = config.max_retries + 1) =>
            /\ Len(req[c].waits) <= config.max_retries
            /\ EveryAttempt(c, {"5xx"}) => SumOf(req[c].waits) = SumPow2(config.max_retries)

\* C27: remaining and window_reset_at are written only by the holder of
\* the lock: while a caller is inside the limiter's exclusive region,
\* suspended there, no step of another request changes them.
C27_WritesUnderLock ==
    [][\A c \in Callers :
          (req[c].pc = "limiter_sleep" /\ req'[c] = req[c]) =>
              UNCHANGED <<remaining, reset_at>>]_vars

\* C28: a caller entering the rate limiter at now >= window_reset_at finds
\* the state reset first, is admitted without suspension and leaves
\* remaining = rate_limit - 1 and window_reset_at = now + 60 s; the first
\* request after construction is such a caller.
C28_ResetOnEntry ==
    [][\A c \in Callers :
          (req[c].pc = "acquire" /\ req'[c] # req[c] /\ clock >= reset_at) =>
              /\ req'[c].pc # "limiter_sleep"
              /\ req'[c].suspended = req[c].suspended
              /\ remaining' = config.rate_limit - 1
              /\ reset_at' = clock + Window]_vars
C28_Witness ==
    /\ clock >= Window
    /\ reset_at = clock + Window
    /\ remaining = config.rate_limit - 1
    /\ Len(hist.admits) >= 1
    /\ hist.admits[Len(hist.admits)] = clock
    /\ hist.window_admits = 1

\* C29: every logical request terminates: once issued it eventually
\* returns a result or raises an error, whatever max_retries, the transport
\* outcomes and the Retry-After values are.
C29_Terminates ==
    \A c \in Callers : (req[c].pc # "idle") ~> Done(c)
C29_Witness ==
    \E c \in Callers :
        /\ Failed(c)
        /\ req[c].tries = config.max_retries + 1
        /\ req[c].suspended >= 1
        /\ \E i \in 1 .. Len(req[c].fails) : req[c].fails[i] = "429"

\* C30: the rate limiter neither deadlocks nor starves: the lock is
\* released on every way out of the check, a cancelled sleeper's included,
\* so every caller asking for admission is eventually through (or is
\* itself cancelled).
C30_EventuallyAdmitted ==
    \A c \in Callers :
        (req[c].pc \in {"acquire", "limiter_sleep"}) ~> (req[c].pc \in {"sending", "done"})
C30_Witness ==
    \E c \in Callers : \E d \in Callers \ {c} :
        /\ req[c].result.type = "CancelledError"
        /\ req[c].result.message = "limiter_sleep"
        /\ clock < req[c].wakeAt
        /\ lock = "free"
        /\ req[d].suspended = 0
        /\ Done(d)
        /\ req[d].result = Returned

====
